---- MODULE Spec2Model ----
(***************************************************************************)
(* Model of service/app.go: the App service (Create, Update, Delete) over  *)
(* a transactional store.  Every storage call of a handler is one atomic   *)
(* step, so that concurrent calls interleave at the storage calls.         *)
(***************************************************************************)
EXTENDS Integers, FiniteSets, Sequences, TLC

\* ------------------------------------------------------------------ bounds
\* number of fresh (ID, ExternalID) pairs uuid.New / secure.NewID hand out
MaxApps == 1
\* largest affected-row count the query executor reports for an INSERT
MaxRows == 2
\* number of Apps in the store the service starts on, in SpecStored
StoredApps == 2

\* ------------------------------------------------------------- input sets
Calls == {"c1", "c2"}

AuditA == [app |-> [id |-> "appA", org |-> "org1"], user |-> "u1", moment |-> 3]
AuditB == [app |-> [id |-> "appB", org |-> "org2"], user |-> "u2", moment |-> 5]
Audits == {AuditA, AuditB}
NoAudit == [app |-> [id |-> "", org |-> ""], user |-> "", moment |-> 0]

\* the (request, audit) pairs a caller supplies
InputA == [r |-> [name |-> "n1", desc |-> "d1"], ad |-> AuditA]
InputB == [r |-> [name |-> "n2", desc |-> "d2"], ad |-> AuditB]
Inputs == {InputA, InputB}

Outcomes == {"ok", "err"}

\* ----------------------------------------------------------------- errors
NilErr == [kind |-> "nil", msg |-> ""]
\* the sentinel of the query layer
ErrNoRows == [kind |-> "pgx", msg |-> "no rows in result set"]
ErrOther == [kind |-> "pgx", msg |-> "storage failure"]
\* errs.E(kind, err): a new error value of the given kind wrapping err
E(kind, err) == [kind |-> kind, msg |-> err.msg]
EMsg(kind, msg) == [kind |-> kind, msg |-> msg]

\* ------------------------------------------------------------ identifiers
\* secure.Identifier and its string form (the stored / requested form)
NewID(n) == <<"x", n>>
IDString(x) == x[2]
MustParseIdentifier(s) == <<"x", s>>
\* the external IDs a caller may ask for: those handed out or stored, and one more
ExtlStrings == 1..(MaxApps + 1) \cup 1..StoredApps

\* time.Time.Format(time.RFC3339): whole seconds, two ticks per second
FormatRFC3339(m) == m \div 2

KeyDeactivation == 2099

\* ------------------------------------------------------------- the state
VARIABLES
    apps,      \* committed App rows
    keys,      \* committed APIKey rows
    nextID,    \* number of IDs handed out so far
    pc,        \* per call: position in the handler
    op,        \* per call: which handler runs
    req,       \* per call: the request (ExternalID, Name, Description)
    adt,       \* per call: the supplied audit.Audit
    loc,       \* per call: the handler's locals (a / aa, loop index, pending error)
    tx,        \* per call: the call's transaction (state and uncommitted writes)
    res,       \* per call: the returned (response, error)
    log        \* per call: the storage calls issued so far, in order

vars == <<apps, keys, nextID, pc, op, req, adt, loc, tx, res, log>>

NoApp == [id |-> 0, extl |-> NewID(0), org |-> "", name |-> "", desc |-> "", apiKeys |-> <<>>]
NoLoc == [a |-> NoApp, first |-> NoAudit, last |-> NoAudit, i |-> 0, err |-> NilErr, conc |-> FALSE]
NoReq == [extl |-> 0, name |-> "", desc |-> ""]
NoTx == [st |-> "none", seq |-> 0, insApps |-> {}, insKeys |-> {}, updApps |-> {}, delKeys |-> {}, delApps |-> {}]
NoResp == [ExternalID |-> 0, Name |-> "", Description |-> "",
           CreateAppExtlID |-> "", CreateUsername |-> "", CreateDateTime |-> 0,
           UpdateAppExtlID |-> "", UpdateUsername |-> "", UpdateDateTime |-> 0,
           APIKeys |-> <<>>, Deleted |-> FALSE]
NoRes == [err |-> NilErr, resp |-> NoResp, first |-> NoAudit, last |-> NoAudit, org |-> ""]

\* -------------------------------------------------------- response shapes
newAPIKeyResponse(key) == [Key |-> key.plain, DeactivationDate |-> key.deactv]

newAppResponse(aa) ==
    [ExternalID |-> IDString(aa.a.extl),
     Name |-> aa.a.name,
     Description |-> aa.a.desc,
     CreateAppExtlID |-> aa.first.app.id,
     CreateUsername |-> aa.first.user,
     CreateDateTime |-> FormatRFC3339(aa.first.moment),
     UpdateAppExtlID |-> aa.last.app.id,
     UpdateUsername |-> aa.last.user,
     UpdateDateTime |-> FormatRFC3339(aa.last.moment),
     APIKeys |-> [k \in 1..Len(aa.a.apiKeys) |-> newAPIKeyResponse(aa.a.apiKeys[k])],
     Deleted |-> FALSE]

\* what a handler returns on success / on error
Success(aa) == [err |-> NilErr, resp |-> newAppResponse(aa),
                first |-> aa.first, last |-> aa.last, org |-> aa.a.org]
Failure(e) == [NoRes EXCEPT !.err = e]

\* --------------------------------------------------------- the store (tx)
\* another call's open transaction holds a row lock on the App row / on a key row
AppLocked(c, id) ==
    \E d \in Calls \ {c} : tx[d].st = "open" /\
        (id \in tx[d].delApps \/ \E u \in tx[d].updApps : u.AppID = id)
KeyLocked(c, k) == \E d \in Calls \ {c} : tx[d].st = "open" /\ k \in tx[d].delKeys

\* rows as the statements of transaction t see them
TxApps(t) == {a \in apps : a.id \notin t.delApps} \cup t.insApps
TxKeys(t) == (keys \ t.delKeys) \cup t.insKeys

ApplyUpdate(a, t) ==
    IF \E u \in t.updApps : u.AppID = a.id
    THEN LET u == CHOOSE u \in t.updApps : u.AppID = a.id
         IN [a EXCEPT !.name = u.AppName, !.desc = u.AppDescription,
                      !.updateAppID = u.UpdateAppID, !.updateUserID = u.UpdateUserID,
                      !.updateTs = u.UpdateTimestamp]
    ELSE a

\* the committed rows after transaction t commits
CommittedApps(t) == {ApplyUpdate(a, t) : a \in {b \in apps : b.id \notin t.delApps}} \cup t.insApps
CommittedKeys(t) == (keys \ t.delKeys) \cup t.insKeys

\* the error the storage layer returns for an outcome
OutErr(o) == IF o = "ok" THEN NilErr ELSE ErrOther

\* one storage call: its name, what it ran on (the pool or the call's
\* transaction), the error it returned and the affected-row count it reported
LogEntry(step, on, err, rows) == [step |-> step, on |-> on, err |-> err, rows |-> rows]
Logged(c, step, on, err, rows) == log' = [log EXCEPT ![c] = Append(@, LogEntry(step, on, err, rows))]

\* ------------------------------------------------------------------- Init
Init ==
    /\ apps = {}
    /\ keys = {}
    /\ nextID = 0
    /\ pc = [c \in Calls |-> "idle"]
    /\ op = [c \in Calls |-> "none"]
    /\ req = [c \in Calls |-> NoReq]
    /\ adt = [c \in Calls |-> NoAudit]
    /\ loc = [c \in Calls |-> NoLoc]
    /\ tx = [c \in Calls |-> NoTx]
    /\ res = [c \in Calls |-> NoRes]
    /\ log = [c \in Calls |-> <<>>]

\* ----------------------------------------------------------------- Create
\* app.App.AddNewKey: appends one freshly generated key (plaintext and
\* ciphertext), or fails when the random source or the cipher fails
AddNewKey(a, n, outcome) ==
    IF outcome = "ok"
    THEN [a EXCEPT !.apiKeys = Append(@, [plain |-> <<"p", n>>, cipher |-> <<"k", n>>,
                                          deactv |-> KeyDeactivation])]
    ELSE a

\* variant: the create-audit columns are left unset on insert
CreateAppParams_NoCreateAudit(a, ad) ==
    [id |-> a.id, orgID |-> a.org, extl |-> IDString(a.extl), name |-> a.name, desc |-> a.desc,
     createAppID |-> "", createUserID |-> "", createTs |-> 0,
     updateAppID |-> ad.app.id, updateUserID |-> ad.user, updateTs |-> ad.moment]

\* variant: the update-audit columns are left unset on insert
CreateAppParams_NoUpdateAudit(a, ad) ==
    [id |-> a.id, orgID |-> a.org, extl |-> IDString(a.extl), name |-> a.name, desc |-> a.desc,
     createAppID |-> ad.app.id, createUserID |-> ad.user, createTs |-> ad.moment,
     updateAppID |-> "", updateUserID |-> "", updateTs |-> 0]

CreateAppParams(a, ad) ==
    [id |-> a.id, orgID |-> a.org, extl |-> IDString(a.extl), name |-> a.name, desc |-> a.desc,
     createAppID |-> ad.app.id, createUserID |-> ad.user, createTs |-> ad.moment,
     updateAppID |-> ad.app.id, updateUserID |-> ad.user, updateTs |-> ad.moment]

CreateAppAPIKeyParams(a, key, ad) ==
    [apiKey |-> key.cipher, appID |-> a.id, deactv |-> key.deactv,
     createAppID |-> ad.app.id, createUserID |-> ad.user, createTs |-> ad.moment,
     updateAppID |-> ad.app.id, updateUserID |-> ad.user, updateTs |-> ad.moment]

\* variant: the error of the key generation is ignored
Create_IgnoreKeyError(c) ==
    /\ pc[c] = "idle"
    /\ nextID < MaxApps
    /\ \E in \in Inputs, keygen \in Outcomes :
        LET r == in.r
            ad == in.ad
            n == nextID + 1
            a0 == [id |-> n, extl |-> NewID(n), org |-> ad.app.org,
                   name |-> r.name, desc |-> r.desc, apiKeys |-> <<>>]
            a == AddNewKey(a0, n, keygen)
        IN /\ nextID' = n
           /\ op' = [op EXCEPT ![c] = "Create"]
           /\ req' = [req EXCEPT ![c] = [extl |-> 0, name |-> r.name, desc |-> r.desc]]
           /\ adt' = [adt EXCEPT ![c] = ad]
           /\ loc' = [loc EXCEPT ![c] = [NoLoc EXCEPT !.a = a, !.i = 1]]
           /\ pc' = [pc EXCEPT ![c] = "BeginTx"]
           /\ res' = res
    /\ UNCHANGED <<apps, keys, tx, log>>

\* lines 97-112: allocate the IDs, fill the App, generate the first key
Create(c) ==
    /\ pc[c] = "idle"
    /\ nextID < MaxApps
    /\ \E in \in Inputs, keygen \in Outcomes :
        LET r == in.r
            ad == in.ad
            n == nextID + 1
            a0 == [id |-> n, extl |-> NewID(n), org |-> ad.app.org,
                   name |-> r.name, desc |-> r.desc, apiKeys |-> <<>>]
            a == AddNewKey(a0, n, keygen)
        IN /\ nextID' = n
           /\ op' = [op EXCEPT ![c] = "Create"]
           /\ req' = [req EXCEPT ![c] = [extl |-> 0, name |-> r.name, desc |-> r.desc]]
           /\ adt' = [adt EXCEPT ![c] = ad]
           /\ loc' = [loc EXCEPT ![c] = [NoLoc EXCEPT !.a = a, !.i = 1]]
           /\ IF keygen = "ok"
              THEN /\ pc' = [pc EXCEPT ![c] = "BeginTx"]
                   /\ res' = res
              ELSE /\ pc' = [pc EXCEPT ![c] = "done"]
                   /\ res' = [res EXCEPT ![c] = Failure(EMsg("Encryption", "key generation"))]
    /\ UNCHANGED <<apps, keys, tx, log>>

\* lines 128-133, 219-224, 257-262: s.Datastorer.BeginTx
BeginTx(c, next) ==
    /\ pc[c] = "BeginTx"
    /\ \E o \in Outcomes :
        /\ Logged(c, "BeginTx", "pool", OutErr(o), 0)
        /\ IF o = "ok"
           THEN /\ tx' = [tx EXCEPT ![c] = [NoTx EXCEPT !.st = "open"]]
                /\ pc' = [pc EXCEPT ![c] = next]
                /\ res' = res
           ELSE /\ tx' = tx
                /\ pc' = [pc EXCEPT ![c] = "done"]
                /\ res' = [res EXCEPT ![c] = Failure(E("Database", ErrOther))]
    /\ UNCHANGED <<apps, keys, nextID, op, req, adt, loc>>

CreateBeginTx(c) == op[c] = "Create" /\ BeginTx(c, "CreateApp")

\* a write failed or reported a wrong count: hand e to RollbackTx
ToRollback(c, e) ==
    /\ pc' = [pc EXCEPT ![c] = "RollbackTx"]
    /\ loc' = [loc EXCEPT ![c].err = e]

\* variant: the loop over the keys is skipped
CreateApp_SkipKeys(c) ==
    /\ op[c] = "Create" /\ pc[c] = "CreateApp"
    /\ \E o \in Outcomes, rows \in 0..MaxRows :
        /\ o = "err" => rows = 0
        /\ Logged(c, "CreateApp", "tx", OutErr(o), rows)
        /\ tx' = [tx EXCEPT ![c].insApps =
                    IF rows >= 1 THEN @ \cup {CreateAppParams(loc[c].a, adt[c])} ELSE @]
        /\ IF o = "err"
           THEN ToRollback(c, E("Database", ErrOther))
           ELSE IF rows # 1
           THEN ToRollback(c, EMsg("Database", "rows affected should be 1"))
           ELSE /\ pc' = [pc EXCEPT ![c] = "CommitTx"]
                /\ loc' = loc
    /\ UNCHANGED <<apps, keys, nextID, op, req, adt, res>>

\* variant: a failed App insert is attempted again
CreateApp_Retry(c) ==
    /\ op[c] = "Create" /\ pc[c] = "CreateApp"
    /\ \E o \in Outcomes, rows \in 0..MaxRows :
        /\ o = "err" => rows = 0
        /\ Logged(c, "CreateApp", "tx", OutErr(o), rows)
        /\ tx' = [tx EXCEPT ![c].insApps =
                    IF rows >= 1 THEN @ \cup {CreateAppParams(loc[c].a, adt[c])} ELSE @]
        /\ IF o = "err"
           THEN UNCHANGED <<pc, loc>>
           ELSE IF rows # 1
           THEN ToRollback(c, EMsg("Database", "rows affected should be 1"))
           ELSE /\ pc' = [pc EXCEPT ![c] =
                        IF loc[c].i <= Len(loc[c].a.apiKeys) THEN "CreateAppAPIKey" ELSE "CommitTx"]
                /\ loc' = loc
    /\ UNCHANGED <<apps, keys, nextID, op, req, adt, res>>

\* lines 135-144: insert the App row, require one affected row
CreateApp(c) ==
    /\ op[c] = "Create" /\ pc[c] = "CreateApp"
    /\ \E o \in Outcomes, rows \in 0..MaxRows :
        /\ o = "err" => rows = 0
        /\ Logged(c, "CreateApp", "tx", OutErr(o), rows)
        /\ tx' = [tx EXCEPT ![c].insApps =
                    IF rows >= 1 THEN @ \cup {CreateAppParams(loc[c].a, adt[c])} ELSE @]
        /\ IF o = "err"
           THEN ToRollback(c, E("Database", ErrOther))
           ELSE IF rows # 1
           THEN ToRollback(c, EMsg("Database", "rows affected should be 1"))
           ELSE /\ pc' = [pc EXCEPT ![c] =
                        IF loc[c].i <= Len(loc[c].a.apiKeys) THEN "CreateAppAPIKey" ELSE "CommitTx"]
                /\ loc' = loc
    /\ UNCHANGED <<apps, keys, nextID, op, req, adt, res>>

\* variant: the affected-row count of the key insert is not checked
CreateAppAPIKey_NoCountCheck(c) ==
    /\ op[c] = "Create" /\ pc[c] = "CreateAppAPIKey"
    /\ \E o \in Outcomes, rows \in 0..MaxRows :
        /\ o = "err" => rows = 0
        /\ Logged(c, "CreateAppAPIKey", "tx", OutErr(o), rows)
        /\ tx' = [tx EXCEPT ![c].insKeys =
                    IF rows >= 1
                    THEN @ \cup {CreateAppAPIKeyParams(loc[c].a, loc[c].a.apiKeys[loc[c].i], adt[c])}
                    ELSE @]
        /\ IF o = "err"
           THEN ToRollback(c, E("Database", ErrOther))
           ELSE /\ pc' = [pc EXCEPT ![c] =
                        IF loc[c].i + 1 <= Len(loc[c].a.apiKeys) THEN "CreateAppAPIKey" ELSE "CommitTx"]
                /\ loc' = [loc EXCEPT ![c].i = @ + 1]
    /\ UNCHANGED <<apps, keys, nextID, op, req, adt, res>>

\* lines 146-171: one turn of the loop over a.APIKeys
CreateAppAPIKey(c) ==
    /\ op[c] = "Create" /\ pc[c] = "CreateAppAPIKey"
    /\ \E o \in Outcomes, rows \in 0..MaxRows :
        /\ o = "err" => rows = 0
        /\ Logged(c, "CreateAppAPIKey", "tx", OutErr(o), rows)
        /\ tx' = [tx EXCEPT ![c].insKeys =
                    IF rows >= 1
                    THEN @ \cup {CreateAppAPIKeyParams(loc[c].a, loc[c].a.apiKeys[loc[c].i], adt[c])}
                    ELSE @]
        /\ IF o = "err"
           THEN ToRollback(c, E("Database", ErrOther))
           ELSE IF rows # 1
           THEN ToRollback(c, EMsg("Database", "rows affected should be 1"))
           ELSE /\ pc' = [pc EXCEPT ![c] =
                        IF loc[c].i + 1 <= Len(loc[c].a.apiKeys) THEN "CreateAppAPIKey" ELSE "CommitTx"]
                /\ loc' = [loc EXCEPT ![c].i = @ + 1]
    /\ UNCHANGED <<apps, keys, nextID, op, req, adt, res>>

\* commit order among the calls not yet returned (bookkeeping only): the
\* committing call gets the highest rank, earlier committers move down
Ranked(c) ==
    [d \in Calls |->
        IF d = c THEN [tx[d] EXCEPT !.st = "committed", !.seq = Cardinality(Calls)]
        ELSE IF tx[d].seq > 1 THEN [tx[d] EXCEPT !.seq = @ - 1]
        ELSE tx[d]]

\* s.Datastorer.CommitTx: the writes of the transaction become visible
\* together, or the commit fails and none does
CommitTx(c, result) ==
    /\ pc[c] = "CommitTx"
    /\ \E o \in Outcomes :
        /\ Logged(c, "CommitTx", "tx", OutErr(o), 0)
        /\ pc' = [pc EXCEPT ![c] = "done"]
        /\ IF o = "ok"
           THEN /\ apps' = CommittedApps(tx[c])
                /\ keys' = CommittedKeys(tx[c])
                /\ tx' = Ranked(c)
                /\ res' = [res EXCEPT ![c] = result]
           ELSE /\ UNCHANGED <<apps, keys>>
                /\ tx' = [tx EXCEPT ![c].st = "failed"]
                /\ res' = [res EXCEPT ![c] = Failure(E("Database", ErrOther))]
    /\ UNCHANGED <<nextID, op, req, adt, loc>>

\* lines 173-179
CreateCommitTx(c) ==
    /\ op[c] = "Create"
    /\ CommitTx(c, Success([a |-> loc[c].a, first |-> adt[c], last |-> adt[c]]))

\* s.Datastorer.RollbackTx(ctx, tx, err): the transaction's writes are
\* discarded; the error handed in (or one reporting the failed rollback) is returned
RollbackTx(c) ==
    /\ pc[c] = "RollbackTx"
    /\ \E o \in Outcomes :
        /\ Logged(c, "RollbackTx", "tx", OutErr(o), 0)
        /\ res' = [res EXCEPT ![c] =
                     Failure(IF o = "ok" THEN loc[c].err ELSE EMsg("Database", "rollback error"))]
    /\ tx' = [tx EXCEPT ![c].st = "rolledback"]
    /\ pc' = [pc EXCEPT ![c] = "done"]
    /\ UNCHANGED <<apps, keys, nextID, op, req, adt, loc>>

\* another call is between its start and its return (bookkeeping only)
InFlight(c) == \E d \in Calls \ {c} : pc[d] \notin {"idle", "done"}

\* ----------------------------------------------------------------- lookup
\* the org of the registered app that acted (the join of the audit columns)
AuditAppOrg(id) == IF \E ad \in Audits : ad.app.id = id
                   THEN (CHOOSE ad \in Audits : ad.app.id = id).app.org
                   ELSE ""

\* appstore.FindAppByExternalID / FindAppByExternalIDWithAudit on the pool:
\* the committed row with that external ID, pgx.ErrNoRows when there is none
FindAppByExternalID(extlID, outcome) ==
    IF outcome = "err" THEN [row |-> {}, err |-> ErrOther]
    ELSE IF \E a \in apps : a.extl = extlID
    THEN [row |-> {CHOOSE a \in apps : a.extl = extlID}, err |-> NilErr]
    ELSE [row |-> {}, err |-> ErrNoRows]

\* lines 300-326
findAppByExternalID(extlID, outcome) ==
    LET f == FindAppByExternalID(extlID, outcome)
    IN IF f.err # NilErr
       THEN [aa |-> [a |-> NoApp, first |-> NoAudit, last |-> NoAudit], err |-> E("Database", f.err)]
       ELSE LET row == CHOOSE r \in f.row : TRUE
            IN [aa |-> [a |-> [id |-> row.id, extl |-> MustParseIdentifier(row.extl),
                               org |-> row.orgID, name |-> row.name, desc |-> row.desc,
                               apiKeys |-> <<>>],
                        first |-> NoAudit, last |-> NoAudit],
                err |-> NilErr]

\* variant: First is hydrated from the update-audit columns
findAppByExternalIDWithAudit_FirstFromUpdate(extlID, outcome) ==
    LET f == FindAppByExternalID(extlID, outcome)
    IN IF f.err # NilErr
       THEN [aa |-> [a |-> NoApp, first |-> NoAudit, last |-> NoAudit], err |-> E("Database", f.err)]
       ELSE LET row == CHOOSE r \in f.row : TRUE
                upd == [app |-> [id |-> row.updateAppID, org |-> AuditAppOrg(row.updateAppID)],
                        user |-> row.updateUserID, moment |-> row.updateTs]
            IN [aa |-> [a |-> [id |-> row.id, extl |-> MustParseIdentifier(row.extl),
                               org |-> row.orgID, name |-> row.name, desc |-> row.desc,
                               apiKeys |-> <<>>],
                        first |-> upd, last |-> upd],
                err |-> NilErr]

\* lines 330-404
findAppByExternalIDWithAudit(extlID, outcome) ==
    LET f == FindAppByExternalID(extlID, outcome)
    IN IF f.err # NilErr
       THEN [aa |-> [a |-> NoApp, first |-> NoAudit, last |-> NoAudit], err |-> E("Database", f.err)]
       ELSE LET row == CHOOSE r \in f.row : TRUE
            IN [aa |-> [a |-> [id |-> row.id, extl |-> MustParseIdentifier(row.extl),
                               org |-> row.orgID, name |-> row.name, desc |-> row.desc,
                               apiKeys |-> <<>>],
                        first |-> [app |-> [id |-> row.createAppID, org |-> AuditAppOrg(row.createAppID)],
                                   user |-> row.createUserID, moment |-> row.createTs],
                        last |-> [app |-> [id |-> row.updateAppID, org |-> AuditAppOrg(row.updateAppID)],
                                  user |-> row.updateUserID, moment |-> row.updateTs]],
                err |-> NilErr]

\* ----------------------------------------------------------------- Update
\* variant: the update is keyed by the ID of another App
UpdateAppParams_OtherApp(aa, ad) ==
    [AppName |-> aa.a.name, AppDescription |-> aa.a.desc,
     UpdateAppID |-> ad.app.id, UpdateUserID |-> ad.user, UpdateTimestamp |-> ad.moment,
     AppID |-> (aa.a.id % StoredApps) + 1]

UpdateAppParams(aa, ad) ==
    [AppName |-> aa.a.name, AppDescription |-> aa.a.desc,
     UpdateAppID |-> ad.app.id, UpdateUserID |-> ad.user, UpdateTimestamp |-> ad.moment,
     AppID |-> aa.a.id]

\* variant: the Description of the request is not copied into the App
Update_KeepDescription(c) ==
    /\ pc[c] = "idle"
    /\ \E x \in ExtlStrings, in \in Inputs, o \in Outcomes :
        LET r == in.r
            ad == in.ad
            f == findAppByExternalIDWithAudit(x, o)
            aa == [f.aa EXCEPT !.last = ad, !.a.name = r.name]
        IN /\ op' = [op EXCEPT ![c] = "Update"]
           /\ req' = [req EXCEPT ![c] = [extl |-> x, name |-> r.name, desc |-> r.desc]]
           /\ adt' = [adt EXCEPT ![c] = ad]
           /\ Logged(c, "FindAppByExternalIDWithAudit", "pool", FindAppByExternalID(x, o).err,
                     Cardinality(FindAppByExternalID(x, o).row))
           /\ IF f.err # NilErr
              THEN /\ pc' = [pc EXCEPT ![c] = "done"]
                   /\ loc' = loc
                   /\ res' = [res EXCEPT ![c] =
                                IF f.err = ErrNoRows
                                THEN Failure(EMsg("Validation", "No app exists for the given external ID"))
                                ELSE Failure(E("Database", f.err))]
              ELSE /\ pc' = [pc EXCEPT ![c] = "BeginTx"]
                   /\ loc' = [loc EXCEPT ![c] = [NoLoc EXCEPT !.a = aa.a, !.first = aa.first,
                                                              !.last = aa.last, !.conc = InFlight(c)]]
                   /\ res' = res
    /\ UNCHANGED <<apps, keys, nextID, tx>>

\* lines 190-217: look the App up on the pool, overwrite Last, Name, Description
Update(c) ==
    /\ pc[c] = "idle"
    /\ \E x \in ExtlStrings, in \in Inputs, o \in Outcomes :
        LET r == in.r
            ad == in.ad
            f == findAppByExternalIDWithAudit(x, o)
            aa == [f.aa EXCEPT !.last = ad, !.a.name = r.name, !.a.desc = r.desc]
        IN /\ op' = [op EXCEPT ![c] = "Update"]
           /\ req' = [req EXCEPT ![c] = [extl |-> x, name |-> r.name, desc |-> r.desc]]
           /\ adt' = [adt EXCEPT ![c] = ad]
           /\ Logged(c, "FindAppByExternalIDWithAudit", "pool", FindAppByExternalID(x, o).err,
                     Cardinality(FindAppByExternalID(x, o).row))
           /\ IF f.err # NilErr
              THEN /\ pc' = [pc EXCEPT ![c] = "done"]
                   /\ loc' = loc
                   /\ res' = [res EXCEPT ![c] =
                                IF f.err = ErrNoRows
                                THEN Failure(EMsg("Validation", "No app exists for the given external ID"))
                                ELSE Failure(E("Database", f.err))]
              ELSE /\ pc' = [pc EXCEPT ![c] = "BeginTx"]
                   /\ loc' = [loc EXCEPT ![c] = [NoLoc EXCEPT !.a = aa.a, !.first = aa.first,
                                                              !.last = aa.last, !.conc = InFlight(c)]]
                   /\ res' = res
    /\ UNCHANGED <<apps, keys, nextID, tx>>

UpdateBeginTx(c) == op[c] = "Update" /\ BeginTx(c, "UpdateApp")

\* variant: a rejected count returns the error without a rollback
UpdateApp_ReturnsOpen(c) ==
    /\ op[c] = "Update" /\ pc[c] = "UpdateApp"
    /\ ~AppLocked(c, loc[c].a.id)
    /\ \E o \in Outcomes :
        LET p == UpdateAppParams([a |-> loc[c].a, first |-> loc[c].first, last |-> loc[c].last], adt[c])
            rows == IF o = "err" THEN 0
                    ELSE Cardinality({a \in TxApps(tx[c]) : a.id = p.AppID})
        IN /\ Logged(c, "UpdateApp", "tx", OutErr(o), rows)
           /\ tx' = [tx EXCEPT ![c].updApps = IF rows >= 1 THEN @ \cup {p} ELSE @]
           /\ IF o = "err"
              THEN ToRollback(c, E("Database", ErrOther)) /\ res' = res
              ELSE IF rows # 1
              THEN /\ pc' = [pc EXCEPT ![c] = "done"]
                   /\ loc' = loc
                   /\ res' = [res EXCEPT ![c] =
                                Failure(EMsg("Database", "rows affected should be 1"))]
              ELSE /\ pc' = [pc EXCEPT ![c] = "CommitTx"]
                   /\ loc' = loc
                   /\ res' = res
    /\ UNCHANGED <<apps, keys, nextID, op, req, adt>>

\* variant: an update that affects no row inserts the row instead
UpdateApp_Upsert(c) ==
    /\ op[c] = "Update" /\ pc[c] = "UpdateApp"
    /\ ~AppLocked(c, loc[c].a.id)
    /\ \E o \in Outcomes :
        LET p == UpdateAppParams([a |-> loc[c].a, first |-> loc[c].first, last |-> loc[c].last], adt[c])
            rows == IF o = "err" THEN 0
                    ELSE Cardinality({a \in TxApps(tx[c]) : a.id = p.AppID})
        IN /\ Logged(c, "UpdateApp", "tx", OutErr(o), rows)
           /\ tx' = [tx EXCEPT ![c].updApps = IF rows >= 1 THEN @ \cup {p} ELSE @,
                               ![c].insApps = IF o = "ok" /\ rows = 0
                                              THEN @ \cup {CreateAppParams(loc[c].a, adt[c])}
                                              ELSE @]
           /\ IF o = "err"
              THEN ToRollback(c, E("Database", ErrOther))
              ELSE /\ pc' = [pc EXCEPT ![c] = "CommitTx"]
                   /\ loc' = loc
    /\ UNCHANGED <<apps, keys, nextID, op, req, adt, res>>

\* variant: the update is issued on the pool instead of the transaction
UpdateApp_OnPool(c) ==
    /\ op[c] = "Update" /\ pc[c] = "UpdateApp"
    /\ ~AppLocked(c, loc[c].a.id)
    /\ \E o \in Outcomes :
        LET p == UpdateAppParams([a |-> loc[c].a, first |-> loc[c].first, last |-> loc[c].last], adt[c])
            rows == IF o = "err" THEN 0
                    ELSE Cardinality({a \in apps : a.id = p.AppID})
        IN /\ Logged(c, "UpdateApp", "pool", OutErr(o), rows)
           /\ apps' = IF o = "err" THEN apps
                      ELSE {ApplyUpdate(a, [updApps |-> {p}]) : a \in apps}
           /\ IF o = "err"
              THEN ToRollback(c, E("Database", ErrOther))
              ELSE IF rows # 1
              THEN ToRollback(c, EMsg("Database", "rows affected should be 1"))
              ELSE /\ pc' = [pc EXCEPT ![c] = "CommitTx"]
                   /\ loc' = loc
    /\ UNCHANGED <<keys, nextID, op, req, adt, res, tx>>

\* lines 226-234: update the App row, require one affected row
UpdateApp(c) ==
    /\ op[c] = "Update" /\ pc[c] = "UpdateApp"
    /\ ~AppLocked(c, loc[c].a.id)
    /\ \E o \in Outcomes :
        LET p == UpdateAppParams([a |-> loc[c].a, first |-> loc[c].first, last |-> loc[c].last], adt[c])
            rows == IF o = "err" THEN 0
                    ELSE Cardinality({a \in TxApps(tx[c]) : a.id = p.AppID})
        IN /\ Logged(c, "UpdateApp", "tx", OutErr(o), rows)
           /\ tx' = [tx EXCEPT ![c].updApps = IF rows >= 1 THEN @ \cup {p} ELSE @]
           /\ IF o = "err"
              THEN ToRollback(c, E("Database", ErrOther))
              ELSE IF rows # 1
              THEN ToRollback(c, EMsg("Database", "rows affected should be 1"))
              ELSE /\ pc' = [pc EXCEPT ![c] = "CommitTx"]
                   /\ loc' = loc
    /\ UNCHANGED <<apps, keys, nextID, op, req, adt, res>>

\* lines 236-242
UpdateCommitTx(c) ==
    /\ op[c] = "Update"
    /\ CommitTx(c, Success([a |-> loc[c].a, first |-> loc[c].first, last |-> loc[c].last]))

\* ----------------------------------------------------------------- Delete
DeleteResponse(extlID) == [NoRes EXCEPT !.resp.ExternalID = extlID, !.resp.Deleted = TRUE]

\* lines 246-255: look the App up on the pool
Delete(c) ==
    /\ pc[c] = "idle"
    /\ \E x \in ExtlStrings, o \in Outcomes :
        LET f == findAppByExternalID(x, o)
        IN /\ op' = [op EXCEPT ![c] = "Delete"]
           /\ req' = [req EXCEPT ![c] = [NoReq EXCEPT !.extl = x]]
           /\ Logged(c, "FindAppByExternalID", "pool", FindAppByExternalID(x, o).err,
                     Cardinality(FindAppByExternalID(x, o).row))
           /\ IF f.err # NilErr
              THEN /\ pc' = [pc EXCEPT ![c] = "done"]
                   /\ loc' = loc
                   /\ res' = [res EXCEPT ![c] =
                                IF f.err = ErrNoRows
                                THEN Failure(EMsg("Validation", "No app exists for the given external ID"))
                                ELSE Failure(E("Database", f.err))]
              ELSE /\ pc' = [pc EXCEPT ![c] = "BeginTx"]
                   /\ loc' = [loc EXCEPT ![c] = [NoLoc EXCEPT !.a = f.aa.a, !.conc = InFlight(c)]]
                   /\ res' = res
    /\ UNCHANGED <<apps, keys, nextID, adt, tx>>

DeleteBeginTx(c) == op[c] = "Delete" /\ BeginTx(c, "DeleteAppAPIKeys")

\* variant: a key deletion that affects no row ends the call as a success
DeleteAppAPIKeys_ZeroIsSuccess(c) ==
    /\ op[c] = "Delete" /\ pc[c] = "DeleteAppAPIKeys"
    /\ \A k \in keys : k.appID = loc[c].a.id => ~KeyLocked(c, k)
    /\ \E o \in Outcomes :
        LET target == IF o = "err" THEN {} ELSE {k \in TxKeys(tx[c]) : k.appID = loc[c].a.id}
            rows == Cardinality(target)
        IN /\ Logged(c, "DeleteAppAPIKeys", "tx", OutErr(o), rows)
           /\ tx' = [tx EXCEPT ![c].delKeys = @ \cup target]
           /\ IF o = "err"
              THEN ToRollback(c, E("Database", ErrOther))
              ELSE /\ pc' = [pc EXCEPT ![c] = IF rows < 1 THEN "CommitTx" ELSE "DeleteApp"]
                   /\ loc' = loc
    /\ UNCHANGED <<apps, keys, nextID, op, req, adt, res>>

\* variant: the error of the key deletion is ignored
DeleteAppAPIKeys_IgnoreError(c) ==
    /\ op[c] = "Delete" /\ pc[c] = "DeleteAppAPIKeys"
    /\ \A k \in keys : k.appID = loc[c].a.id => ~KeyLocked(c, k)
    /\ \E o \in Outcomes :
        LET target == IF o = "err" THEN {} ELSE {k \in TxKeys(tx[c]) : k.appID = loc[c].a.id}
            rows == Cardinality(target)
        IN /\ Logged(c, "DeleteAppAPIKeys", "tx", OutErr(o), rows)
           /\ tx' = [tx EXCEPT ![c].delKeys = @ \cup target]
           /\ IF o = "ok" /\ rows < 1
              THEN ToRollback(c, EMsg("Database", "rows affected should be at least 1"))
              ELSE /\ pc' = [pc EXCEPT ![c] = "DeleteApp"]
                   /\ loc' = loc
    /\ UNCHANGED <<apps, keys, nextID, op, req, adt, res>>

\* variant: a key deletion that affects no row is accepted
DeleteAppAPIKeys_NoCountCheck(c) ==
    /\ op[c] = "Delete" /\ pc[c] = "DeleteAppAPIKeys"
    /\ \A k \in keys : k.appID = loc[c].a.id => ~KeyLocked(c, k)
    /\ \E o \in Outcomes :
        LET target == IF o = "err" THEN {} ELSE {k \in TxKeys(tx[c]) : k.appID = loc[c].a.id}
            rows == Cardinality(target)
        IN /\ Logged(c, "DeleteAppAPIKeys", "tx", OutErr(o), rows)
           /\ tx' = [tx EXCEPT ![c].delKeys = @ \cup target]
           /\ IF o = "err"
              THEN ToRollback(c, E("Database", ErrOther))
              ELSE /\ pc' = [pc EXCEPT ![c] = "DeleteApp"]
                   /\ loc' = loc
    /\ UNCHANGED <<apps, keys, nextID, op, req, adt, res>>

\* lines 264-274: delete every APIKey row of the App, require at least one
DeleteAppAPIKeys(c) ==
    /\ op[c] = "Delete" /\ pc[c] = "DeleteAppAPIKeys"
    /\ \A k \in keys : k.appID = loc[c].a.id => ~KeyLocked(c, k)
    /\ \E o \in Outcomes :
        LET target == IF o = "err" THEN {} ELSE {k \in TxKeys(tx[c]) : k.appID = loc[c].a.id}
            rows == Cardinality(target)
        IN /\ Logged(c, "DeleteAppAPIKeys", "tx", OutErr(o), rows)
           /\ tx' = [tx EXCEPT ![c].delKeys = @ \cup target]
           /\ IF o = "err"
              THEN ToRollback(c, E("Database", ErrOther))
              ELSE IF rows < 1
              THEN ToRollback(c, EMsg("Database", "rows affected should be at least 1"))
              ELSE /\ pc' = [pc EXCEPT ![c] = "DeleteApp"]
                   /\ loc' = loc
    /\ UNCHANGED <<apps, keys, nextID, op, req, adt, res>>

\* variant: a failed App deletion returns its error without a rollback
DeleteApp_NoRollback(c) ==
    /\ op[c] = "Delete" /\ pc[c] = "DeleteApp"
    /\ ~AppLocked(c, loc[c].a.id)
    /\ \E o \in Outcomes :
        LET target == IF o = "err" THEN {} ELSE {a \in TxApps(tx[c]) : a.id = loc[c].a.id}
            rows == Cardinality(target)
        IN /\ Logged(c, "DeleteApp", "tx", OutErr(o), rows)
           /\ tx' = [tx EXCEPT ![c].delApps = @ \cup {a.id : a \in target}]
           /\ IF o = "err" \/ rows # 1
              THEN /\ pc' = [pc EXCEPT ![c] = "done"]
                   /\ res' = [res EXCEPT ![c] = Failure(E("Database", ErrOther))]
              ELSE /\ pc' = [pc EXCEPT ![c] = "CommitTx"]
                   /\ res' = res
    /\ UNCHANGED <<apps, keys, nextID, op, req, adt, loc>>

\* lines 276-284: delete the App row, require one affected row
DeleteApp(c) ==
    /\ op[c] = "Delete" /\ pc[c] = "DeleteApp"
    /\ ~AppLocked(c, loc[c].a.id)
    /\ \E o \in Outcomes :
        LET target == IF o = "err" THEN {} ELSE {a \in TxApps(tx[c]) : a.id = loc[c].a.id}
            rows == Cardinality(target)
        IN /\ Logged(c, "DeleteApp", "tx", OutErr(o), rows)
           /\ tx' = [tx EXCEPT ![c].delApps = @ \cup {a.id : a \in target}]
           /\ IF o = "err"
              THEN ToRollback(c, E("Database", ErrOther))
              ELSE IF rows # 1
              THEN ToRollback(c, EMsg("Database", "rows affected should be 1"))
              ELSE /\ pc' = [pc EXCEPT ![c] = "CommitTx"]
                   /\ loc' = loc
    /\ UNCHANGED <<apps, keys, nextID, op, req, adt, res>>

\* lines 286-297
DeleteCommitTx(c) ==
    /\ op[c] = "Delete"
    /\ CommitTx(c, DeleteResponse(req[c].extl))

\* the caller takes the result; the slot serves the next call
Return(c) ==
    /\ pc[c] = "done"
    /\ pc' = [pc EXCEPT ![c] = "idle"]
    /\ op' = [op EXCEPT ![c] = "none"]
    /\ req' = [req EXCEPT ![c] = NoReq]
    /\ adt' = [adt EXCEPT ![c] = NoAudit]
    /\ loc' = [loc EXCEPT ![c] = NoLoc]
    /\ tx' = [tx EXCEPT ![c] = NoTx]
    /\ res' = [res EXCEPT ![c] = NoRes]
    /\ log' = [log EXCEPT ![c] = <<>>]
    /\ UNCHANGED <<apps, keys, nextID>>

Next ==
    \E c \in Calls :
        \/ Create(c)
        \/ CreateBeginTx(c)
        \/ CreateApp(c)
        \/ CreateAppAPIKey(c)
        \/ CreateCommitTx(c)
        \/ Update(c)
        \/ UpdateBeginTx(c)
        \/ UpdateApp(c)
        \/ UpdateCommitTx(c)
        \/ Delete(c)
        \/ DeleteBeginTx(c)
        \/ DeleteAppAPIKeys(c)
        \/ DeleteApp(c)
        \/ DeleteCommitTx(c)
        \/ RollbackTx(c)
        \/ Return(c)

Spec == Init /\ [][Next]_vars

\* ------------------------------------------- a store that already holds Apps
\* the rows an earlier successful Create(in.r, in.ad) with ID n has committed
StoredApp(n, in) ==
    CreateAppParams([id |-> n, extl |-> NewID(n), org |-> in.ad.app.org,
                     name |-> in.r.name, desc |-> in.r.desc, apiKeys |-> <<>>], in.ad)
StoredKey(n, in) ==
    LET a == AddNewKey([id |-> n, extl |-> NewID(n), org |-> in.ad.app.org,
                        name |-> in.r.name, desc |-> in.r.desc, apiKeys |-> <<>>], n, "ok")
    IN CreateAppAPIKeyParams(a, a.apiKeys[1], in.ad)

\* the service starts on a store that holds StoredApps Apps, created in turn
\* by the two callers
StoredBy(n) == IF n % 2 = 1 THEN InputA ELSE InputB

InitStored ==
    /\ apps = {StoredApp(n, StoredBy(n)) : n \in 1..StoredApps}
    /\ keys = {StoredKey(n, StoredBy(n)) : n \in 1..StoredApps}
    /\ nextID = StoredApps
    /\ pc = [c \in Calls |-> "idle"]
    /\ op = [c \in Calls |-> "none"]
    /\ req = [c \in Calls |-> NoReq]
    /\ adt = [c \in Calls |-> NoAudit]
    /\ loc = [c \in Calls |-> NoLoc]
    /\ tx = [c \in Calls |-> NoTx]
    /\ res = [c \in Calls |-> NoRes]
    /\ log = [c \in Calls |-> <<>>]

\* Update and Delete calls on the Apps of that store
NextStored ==
    \E c \in Calls :
        \/ Update(c)
        \/ UpdateBeginTx(c)
        \/ UpdateApp(c)
        \/ UpdateCommitTx(c)
        \/ Delete(c)
        \/ DeleteBeginTx(c)
        \/ DeleteAppAPIKeys(c)
        \/ DeleteApp(c)
        \/ DeleteCommitTx(c)
        \/ RollbackTx(c)
        \/ Return(c)

SpecStored == InitStored /\ [][NextStored]_vars

\* ================================================================= claims
Done(c) == pc[c] = "done"
Ok(c) == res[c].err = NilErr
Entries(c) == 1..Len(log[c])
Issued(c, step) == \E i \in Entries(c) : log[c][i].step = step
Times(c, step) == Cardinality({i \in Entries(c) : log[c][i].step = step})
WriteSteps == {"CreateApp", "CreateAppAPIKey", "UpdateApp", "DeleteAppAPIKeys", "DeleteApp"}
LookupSteps == {"FindAppByExternalID", "FindAppByExternalIDWithAudit"}
\* the step by which call c returns from a successful commit
Commits(c) == pc[c] = "CommitTx" /\ pc'[c] = "done" /\ res'[c].err = NilErr

\* C1: an Update or Delete whose lookup finds no App row for the ExternalID
\* returns a Validation-kind error (the claim as stated; the code returns Database)
C1_NotFoundIsValidation ==
    \A c \in Calls :
        (Done(c) /\ op[c] \in {"Update", "Delete"} /\ log[c][1].err = ErrNoRows)
            => res[c].err.kind = "Validation"

\* C2: the commit of a successful Create adds exactly one App row and exactly
\* one APIKey row of that App to the committed store, the App row's create- and
\* update-audit columns are the supplied Audit, and the response has
\* First = Last = the supplied Audit
C2_CreateSuccess ==
    [][\A c \in Calls :
        (op[c] = "Create" /\ Commits(c)) =>
            /\ apps \subseteq apps' /\ keys \subseteq keys'
            /\ Cardinality(apps' \ apps) = 1
            /\ Cardinality(keys' \ keys) = 1
            /\ \A a \in apps' \ apps :
                /\ a.id = loc[c].a.id
                /\ <<a.createAppID, a.createUserID, a.createTs>>
                       = <<adt[c].app.id, adt[c].user, adt[c].moment>>
                /\ <<a.updateAppID, a.updateUserID, a.updateTs>>
                       = <<adt[c].app.id, adt[c].user, adt[c].moment>>
            /\ \A k \in keys' \ keys : k.appID = loc[c].a.id
            /\ res'[c].first = adt[c] /\ res'[c].last = adt[c]
            /\ res'[c].resp.CreateDateTime = FormatRFC3339(adt[c].moment)
            /\ res'[c].resp.UpdateDateTime = FormatRFC3339(adt[c].moment)]_vars

C2_Witness ==
    \E c \in Calls :
        /\ op[c] = "Create" /\ Done(c) /\ Ok(c)
        /\ \E a \in apps : a.id = loc[c].a.id /\ \E k \in keys : k.appID = a.id

\* C3: the commit of a successful Update leaves the App row's create-audit
\* columns and Org as they were, sets its update-audit columns to the supplied
\* Audit, and the response has First = the stored create audit, Last = the
\* supplied Audit and the stored Org
C3_UpdateSuccess ==
    [][\A c \in Calls :
        (op[c] = "Update" /\ Commits(c)) =>
            \E a \in apps : \E b \in apps' :
                /\ a.id = loc[c].a.id /\ b.id = a.id
                /\ <<b.createAppID, b.createUserID, b.createTs, b.orgID>>
                       = <<a.createAppID, a.createUserID, a.createTs, a.orgID>>
                /\ <<b.updateAppID, b.updateUserID, b.updateTs>>
                       = <<adt[c].app.id, adt[c].user, adt[c].moment>>
                /\ res'[c].first.app.id = a.createAppID
                /\ res'[c].first.user = a.createUserID
                /\ res'[c].first.moment = a.createTs
                /\ res'[c].resp.CreateDateTime = FormatRFC3339(a.createTs)
                /\ res'[c].last = adt[c]
                /\ res'[c].resp.UpdateDateTime = FormatRFC3339(adt[c].moment)
                /\ res'[c].org = a.orgID]_vars

C3_Witness ==
    \E c \in Calls :
        /\ op[c] = "Update" /\ Done(c) /\ Ok(c)
        /\ res[c].first # res[c].last
        /\ res[c].org # adt[c].app.org

\* a write of call c reported an affected-row count other than 1
BadCount(c) ==
    \E i \in Entries(c) :
        /\ log[c][i].step \in {"CreateApp", "CreateAppAPIKey", "UpdateApp"}
        /\ log[c][i].err = NilErr
        /\ log[c][i].rows # 1

\* C4: after an insert of Create or the update of Update reported a count
\* other than 1, the call goes to the rollback, returns an error, and the
\* committed store holds no App row and no APIKey row of that call's App
C4_BadCountRollsBack ==
    \A c \in Calls :
        BadCount(c) =>
            /\ pc[c] \in {"RollbackTx", "done"}
            /\ Done(c) => (~Ok(c) /\ tx[c].st = "rolledback" /\ Issued(c, "RollbackTx"))
            /\ ~\E a \in apps : a.id = loc[c].a.id
            /\ ~\E k \in keys : k.appID = loc[c].a.id

C4_Witness ==
    \E c \in Calls :
        /\ op[c] = "Create" /\ Done(c) /\ BadCount(c)
        /\ tx[c].insApps # {}

\* the key deletion of call c ran and affected no row
ZeroKeys(c) ==
    \E i \in Entries(c) :
        log[c][i].step = "DeleteAppAPIKeys" /\ log[c][i].err = NilErr /\ log[c][i].rows = 0

KeysBeforeApp(c) ==
    \A j \in Entries(c) :
        log[c][j].step = "DeleteApp" =>
            \E i \in 1..(j - 1) : log[c][i].step = "DeleteAppAPIKeys"

\* C5 as stated: the key deletion precedes the App deletion, and after a key
\* deletion that affected 0 rows the App delete is not issued and the App row
\* is present when the call has returned
C5_AppRowStillPresent ==
    \A c \in Calls :
        op[c] = "Delete" =>
            /\ KeysBeforeApp(c)
            /\ (ZeroKeys(c) /\ Done(c)) =>
                    (~Issued(c, "DeleteApp") /\ \E a \in apps : a.id = loc[c].a.id)

\* C5 amended: the key deletion precedes the App deletion, and after a key
\* deletion that affected 0 rows the App delete is never issued and the call
\* removes nothing: its transaction holds no deletion and never commits
C5_NoAppDeleteAfterZeroKeys ==
    \A c \in Calls :
        op[c] = "Delete" =>
            /\ KeysBeforeApp(c)
            /\ ZeroKeys(c) =>
                /\ ~Issued(c, "DeleteApp")
                /\ pc[c] \in {"RollbackTx", "done"}
                /\ tx[c].st \in {"open", "rolledback"}
                /\ tx[c].delApps = {} /\ tx[c].delKeys = {}
                /\ Done(c) => ~Ok(c)

C5_Witness ==
    \E c \in Calls : op[c] = "Delete" /\ Done(c) /\ ZeroKeys(c)

\* call c has begun its transaction
TxBegun(c) == \E i \in Entries(c) : log[c][i].step = "BeginTx" /\ log[c][i].err = NilErr
\* a write of call c failed
FailedWrite(c) == \E i \in Entries(c) : log[c][i].step \in WriteSteps /\ log[c][i].err # NilErr
\* a write of call c reported a count its handler rejects
RejectedCount(c) ==
    \E i \in Entries(c) :
        /\ log[c][i].err = NilErr
        /\ \/ log[c][i].step \in {"CreateApp", "CreateAppAPIKey", "UpdateApp", "DeleteApp"}
              /\ log[c][i].rows # 1
           \/ log[c][i].step = "DeleteAppAPIKeys" /\ log[c][i].rows < 1
FailedCommit(c) == \E i \in Entries(c) : log[c][i].step = "CommitTx" /\ log[c][i].err # NilErr

\* C6 as stated: a call that returns an error after it began its transaction
\* has issued a rollback of that transaction
C6_ExplicitRollbackAlways ==
    \A c \in Calls : (Done(c) /\ ~Ok(c) /\ TxBegun(c)) => Issued(c, "RollbackTx")

C6_ErrorReturn(c) ==
    (Done(c) /\ ~Ok(c) /\ TxBegun(c)) =>
        /\ tx[c].st \in {"rolledback", "failed"}
        /\ (FailedWrite(c) \/ RejectedCount(c)) => Issued(c, "RollbackTx")
        /\ Issued(c, "RollbackTx") \/ FailedCommit(c)
        /\ log[c][Len(log[c])].step \in {"RollbackTx", "CommitTx"}

\* C6 amended: a failed write or a rejected affected-row count triggers a
\* rollback before the error is returned, a failed commit returns its error
\* without a rollback call, and only the successful commit of a call changes
\* the committed store, so a call that returns an error has left no write in it
C6_RollbackUnlessCommitFailed ==
    [][/\ \A c \in Calls : (pc'[c] # pc[c] /\ ~Commits(c)) => UNCHANGED <<apps, keys>>
       /\ \A c \in Calls : C6_ErrorReturn(c)']_vars

C6_Witness ==
    \E c \in Calls :
        /\ Done(c) /\ ~Ok(c) /\ TxBegun(c) /\ Issued(c, "RollbackTx")
        /\ tx[c].insApps # {} \/ tx[c].updApps # {} \/ tx[c].delKeys # {}

\* C7 as stated: every storage operation of a call, the lookup included, runs
\* on the call's one transaction
C7_EverythingInsideOneTx ==
    \A c \in Calls :
        /\ Times(c, "BeginTx") <= 1
        /\ \A i \in Entries(c) : log[c][i].step # "BeginTx" => log[c][i].on = "tx"

C7_Log(c) ==
    /\ Times(c, "BeginTx") <= 1
    /\ \A i \in Entries(c) :
        /\ log[c][i].step \in (WriteSteps \cup {"CommitTx", "RollbackTx"}) =>
              /\ log[c][i].on = "tx"
              /\ \E j \in 1..(i - 1) : log[c][j].step = "BeginTx" /\ log[c][j].err = NilErr
        /\ log[c][i].step \in LookupSteps =>
              /\ log[c][i].on = "pool"
              /\ \A j \in 1..i : log[c][j].step # "BeginTx"

\* C7 amended: a call begins at most one transaction and issues every write,
\* its commit and its rollback on that transaction while it is open; the lookup
\* by ExternalID of Update and Delete runs on the pool, before the transaction
\* is begun
C7_WritesInsideOneTx ==
    [][\A c \in Calls :
        /\ C7_Log(c)'
        /\ (Len(log'[c]) > Len(log[c])
              /\ log'[c][Len(log'[c])].step \in (WriteSteps \cup {"CommitTx", "RollbackTx"}))
           => (tx[c].st = "open" /\ (UNCHANGED <<apps, keys>> \/ Commits(c)))]_vars

C7_Witness ==
    \E c \in Calls :
        /\ op[c] = "Update" /\ Done(c) /\ Ok(c)
        /\ Len(log[c]) = 4 /\ log[c][1].on = "pool" /\ log[c][3].on = "tx"

\* app.APIKey.Key(): the plaintext of a stored ciphertext
Decrypt(cipher) == <<"p", cipher[2]>>

\* C8 as stated: the response of a successful Update lists the keys stored
\* for the App
C8_UpdateReturnsStoredKeys ==
    \A c \in Calls :
        (op[c] = "Update" /\ Done(c) /\ Ok(c)) =>
            \A k \in keys :
                k.appID = loc[c].a.id =>
                    \E i \in 1..Len(res[c].resp.APIKeys) :
                        res[c].resp.APIKeys[i].Key = Decrypt(k.apiKey)

\* C9: of two successful Updates of the same App, the one that committed last
\* determines the stored Name, Description and update audit together, and
\* each response shows the values of its own call
C9_LastWriterWins ==
    \A c, d \in Calls :
        (/\ c # d /\ op[c] = "Update" /\ op[d] = "Update"
         /\ Done(c) /\ Done(d) /\ Ok(c) /\ Ok(d)
         /\ loc[c].a.id = loc[d].a.id
         /\ tx[c].seq > tx[d].seq) =>
            /\ \E a \in apps :
                /\ a.id = loc[c].a.id
                /\ a.name = req[c].name /\ a.desc = req[c].desc
                /\ <<a.updateAppID, a.updateUserID, a.updateTs>>
                       = <<adt[c].app.id, adt[c].user, adt[c].moment>>
            /\ \A e \in {c, d} :
                /\ res[e].resp.Name = req[e].name
                /\ res[e].resp.Description = req[e].desc
                /\ res[e].last = adt[e]
                /\ res[e].resp.UpdateDateTime = FormatRFC3339(adt[e].moment)

C9_Witness ==
    \E c, d \in Calls :
        /\ c # d /\ op[c] = "Update" /\ op[d] = "Update"
        /\ Done(c) /\ Done(d) /\ Ok(c) /\ Ok(d)
        /\ loc[c].a.id = loc[d].a.id
        /\ tx[c].seq > tx[d].seq
        /\ loc[c].conc \/ loc[d].conc
        /\ req[c].name # req[d].name /\ adt[c] # adt[d]

\* C10: a call issues each storage step at most once (one key insert per
\* generated key), and after the first storage error it issues nothing but the
\* rollback and returns an error
C10_NoRetry ==
    \A c \in Calls :
        /\ \A s \in (WriteSteps \ {"CreateAppAPIKey"}) \cup LookupSteps
                      \cup {"BeginTx", "CommitTx", "RollbackTx"} : Times(c, s) <= 1
        /\ Times(c, "CreateAppAPIKey") <= Len(loc[c].a.apiKeys)
        /\ \A i, j \in Entries(c) :
              (i < j /\ log[c][i].err # NilErr) => log[c][j].step = "RollbackTx"
        /\ (\E i \in Entries(c) : log[c][i].err # NilErr) =>
              (pc[c] \in {"RollbackTx", "done"} /\ (Done(c) => ~Ok(c)))

C10_Witness ==
    \E c \in Calls :
        /\ Done(c) /\ ~Ok(c) /\ FailedWrite(c)
        /\ log[c][Len(log[c])].step = "RollbackTx"

\* call c takes this step, as the given handler
Steps(c, h) == pc'[c] # pc[c] /\ (op[c] = h \/ op'[c] = h)
AppIDs(rows) == {a.id : a \in rows}
CreateAudit(a) == <<a.createAppID, a.createUserID, a.createTs>>
UpdateAudit(a) == <<a.updateAppID, a.updateUserID, a.updateTs>>
AuditColumns(ad) == <<ad.app.id, ad.user, ad.moment>>

\* C11: no step of an Update call changes an APIKey row, adds or removes an
\* App row, or changes an App row other than the one it targets; its commit
\* changes of the targeted row only Name, Description and the update audit
C11_UpdateFrame ==
    [][\A c \in Calls :
        Steps(c, "Update") =>
            /\ keys' = keys
            /\ AppIDs(apps') = AppIDs(apps)
            /\ \A a \in apps : \A b \in apps' :
                a.id = b.id =>
                    IF a.id = loc[c].a.id /\ Commits(c)
                    THEN /\ [b EXCEPT !.name = a.name, !.desc = a.desc,
                                      !.updateAppID = a.updateAppID,
                                      !.updateUserID = a.updateUserID,
                                      !.updateTs = a.updateTs] = a
                         /\ b.name = req[c].name /\ b.desc = req[c].desc
                         /\ UpdateAudit(b) = AuditColumns(adt[c])
                    ELSE b = a]_vars

C11_Witness ==
    \E c \in Calls :
        /\ op[c] = "Update" /\ Done(c) /\ Ok(c)
        /\ \E a, b \in apps :
            /\ a.id = loc[c].a.id /\ b.id # a.id
            /\ a.name = req[c].name /\ UpdateAudit(a) # CreateAudit(a)

\* the lookup of call c found the App
Found(c) == Len(log[c]) >= 1 /\ log[c][1].step \in LookupSteps /\ log[c][1].err = NilErr
AppPresent(id) == \E a \in apps : a.id = id
KeysPresent(id) == \E k \in keys : k.appID = id

\* C12 as stated: after a successful Delete the App row and its key rows are
\* gone, and after a Delete that found the App and returned an error they are
\* still present
C12_ErrorLeavesRowsPresent ==
    \A c \in Calls :
        (op[c] = "Delete" /\ Done(c) /\ Found(c)) =>
            IF Ok(c)
            THEN ~AppPresent(loc[c].a.id) /\ ~KeysPresent(loc[c].a.id)
            ELSE AppPresent(loc[c].a.id) /\ KeysPresent(loc[c].a.id)

\* C12 amended: the commit of a successful Delete removes the App row and all
\* its key rows together and nothing else, they stay absent, and no other
\* step of a Delete call changes the committed store, so a Delete that returns
\* an error has removed nothing
C12_DeleteAllOrNothing ==
    [][\A c \in Calls :
        /\ (Steps(c, "Delete") /\ ~Commits(c)) => UNCHANGED <<apps, keys>>
        /\ (op[c] = "Delete" /\ Commits(c)) =>
              /\ apps' = {a \in apps : a.id # loc[c].a.id}
              /\ keys' = {k \in keys : k.appID # loc[c].a.id}
              /\ AppPresent(loc[c].a.id) /\ KeysPresent(loc[c].a.id)
        /\ (op'[c] = "Delete" /\ pc'[c] = "done") =>
              IF res'[c].err = NilErr
              THEN /\ res'[c].resp.Deleted /\ res'[c].resp.ExternalID = req'[c].extl
                   /\ ~\E a \in apps' : a.id = loc'[c].a.id
                   /\ ~\E k \in keys' : k.appID = loc'[c].a.id
              ELSE tx'[c].st # "committed"]_vars

C12_Witness ==
    \E c \in Calls :
        /\ op[c] = "Delete" /\ Done(c) /\ ~Ok(c)
        /\ tx[c].delKeys # {}
        /\ AppPresent(loc[c].a.id) /\ KeysPresent(loc[c].a.id)

\* C13: in every committed state every App row has at least one APIKey row
\* and every APIKey row belongs to an App row
C13_NoKeylessAppNoOrphanKey ==
    /\ \A a \in apps : KeysPresent(a.id)
    /\ \A k \in keys : AppPresent(k.appID)

C13_Witness ==
    /\ apps # {}
    /\ \E c \in Calls :
        /\ Done(c) /\ ~Ok(c) /\ TxBegun(c)
        /\ tx[c].delKeys # {}

\* C14: no step changes the create-audit columns of an App row, and the
\* commit of a Create stores the supplied Audit in them
C14_CreateAuditWriteOnce ==
    [][/\ \A a \in apps : \A b \in apps' : a.id = b.id => CreateAudit(b) = CreateAudit(a)
       /\ \A c \in Calls :
            (op[c] = "Create" /\ Commits(c)) =>
                \A b \in apps' \ apps :
                    b.id = loc[c].a.id /\ CreateAudit(b) = AuditColumns(adt[c])]_vars

C14_Witness ==
    \E a \in apps :
        /\ UpdateAudit(a) # CreateAudit(a)
        /\ \E c \in Calls : op[c] = "Update" /\ Done(c) /\ Ok(c) /\ loc[c].a.id = a.id

\* C15: a Create whose key generation failed has returned that error, has
\* issued no storage call, has no transaction and has written no row
C15_KeyErrorBeforeTx ==
    \A c \in Calls :
        (op[c] = "Create" /\ Len(loc[c].a.apiKeys) = 0) =>
            /\ Done(c) /\ res[c].err.kind = "Encryption"
            /\ log[c] = <<>>
            /\ tx[c] = NoTx
            /\ ~AppPresent(loc[c].a.id) /\ ~KeysPresent(loc[c].a.id)

C15_Witness ==
    \E c \in Calls : op[c] = "Create" /\ Done(c) /\ Len(loc[c].a.apiKeys) = 0

EndSteps == {"CommitTx", "RollbackTx"}
Ends(c) == {i \in Entries(c) : log[c][i].step \in EndSteps}

\* C16: a transaction that was begun is ended at most once, by a commit or by
\* a rollback, and exactly once when the call has returned; nothing is issued
\* after the step that ended it, and no write is issued without it
C16_TxEndedOnce ==
    \A c \in Calls :
        /\ Cardinality(Ends(c)) <= 1
        /\ \A i \in Ends(c) : i = Len(log[c]) /\ TxBegun(c)
        /\ \A i \in Entries(c) : log[c][i].step \in WriteSteps => TxBegun(c)
        /\ IF TxBegun(c)
           THEN /\ (tx[c].st = "open") = (Ends(c) = {})
                /\ tx[c].st = "committed" =>
                      (Times(c, "CommitTx") = 1 /\ Times(c, "RollbackTx") = 0)
                /\ tx[c].st = "rolledback" =>
                      (Times(c, "RollbackTx") = 1 /\ Times(c, "CommitTx") = 0)
                /\ Done(c) => tx[c].st \in {"committed", "rolledback", "failed"}
           ELSE tx[c].st = "none"

C16_Witness ==
    \E c, d \in Calls :
        /\ Done(c) /\ tx[c].st = "committed"
        /\ Done(d) /\ tx[d].st = "rolledback" /\ FailedWrite(d)

\* the update of call c ran and affected no row
ZeroUpdate(c) ==
    \E i \in Entries(c) :
        log[c][i].step = "UpdateApp" /\ log[c][i].err = NilErr /\ log[c][i].rows = 0

C17_AfterZeroUpdate(c) ==
    ZeroUpdate(c) =>
        /\ pc[c] \in {"RollbackTx", "done"}
        /\ Done(c) => (res[c].err.kind = "Database" /\ tx[c].st = "rolledback")
        /\ ~AppPresent(loc[c].a.id) /\ ~KeysPresent(loc[c].a.id)

\* C17: no step of an Update adds an App row or a key row; when the App row
\* is gone at the time of the update statement, the statement affects 0 rows,
\* the call rolls back and returns a Database-kind error, and the App row and
\* its key rows stay absent
C17_UpdateNeverCreates ==
    [][\A c \in Calls :
        /\ Steps(c, "Update") => (AppIDs(apps') \subseteq AppIDs(apps) /\ keys' \subseteq keys)
        /\ (op[c] = "Update" /\ pc[c] = "UpdateApp" /\ pc'[c] # pc[c]
               /\ ~AppPresent(loc[c].a.id)) =>
              /\ log'[c][Len(log'[c])].rows = 0
              /\ pc'[c] = "RollbackTx"
        /\ C17_AfterZeroUpdate(c)']_vars

C17_Witness ==
    \E c \in Calls : op[c] = "Update" /\ Done(c) /\ Found(c) /\ ZeroUpdate(c)

\* C18: of two Deletes of the same ExternalID at most one returns
\* Deleted: true, and the App row and its key rows are always all present or
\* all absent
C18_OneDeleteWins ==
    /\ \A c, d \in Calls :
          (/\ c # d /\ op[c] = "Delete" /\ op[d] = "Delete"
           /\ Done(c) /\ Done(d) /\ req[c].extl = req[d].extl) =>
              /\ ~(Ok(c) /\ Ok(d))
              /\ Ok(c) => (res[c].resp.Deleted /\ ~Ok(d) /\ ~res[d].resp.Deleted)
    /\ \A id \in ExtlStrings : AppPresent(id) = KeysPresent(id)

C18_Witness ==
    \E c, d \in Calls :
        /\ c # d /\ op[c] = "Delete" /\ op[d] = "Delete"
        /\ Done(c) /\ Done(d) /\ req[c].extl = req[d].extl
        /\ Ok(c) /\ ~Ok(d) /\ Found(d) /\ TxBegun(d)
        /\ loc[c].conc \/ loc[d].conc

====
